---- MODULE Spec2Model ----
(***************************************************************************)
(* Model of the OpenAI model-catalog adapter (lib/openai-models.ts) and of *)
(* the models route built on it.                                           *)
(*                                                                         *)
(* JavaScript strings are modelled as sequences of one-character strings,  *)
(* so that startsWith, includes, toUpperCase and replace are computed, not *)
(* assumed.                                                                *)
(***************************************************************************)
EXTENDS Integers, Sequences, FiniteSets

VARIABLES
    now,             \* Date.now(), in ms relative to the model's time origin
    env,             \* process.env: the two key variables fetchOpenAIModels reads
    cachedModels,    \* module variable cachedModels: <<>> is null, <<m>> holds the array m
    cacheTimestamp,  \* module variable cacheTimestamp
    inflight,        \* getCachedOpenAIModels invocations suspended at their await, oldest first
    ret,             \* how the last getCachedOpenAIModels invocation to end ended: <<>> before any
    writer,          \* the fetch that stored the current snapshot: <<>> when there is none
    afterClear,      \* TRUE from a clearOpenAIModelsCache to the next getCachedOpenAIModels call
    upstream,        \* what api.openai.com answers to a route request
    routeResp        \* the last response of the models route: <<>> before any request

vars == <<now, env, cachedModels, cacheTimestamp, inflight, ret, writer,
          afterClear, upstream, routeResp>>

cacheVars == <<now, cachedModels, cacheTimestamp, inflight, ret, writer, afterClear>>

----------------------------------------------------------------------------
(* Bounds of the model *)

MaxInFlight == 2     \* getCachedOpenAIModels invocations suspended at the same time
MaxTicks == 3        \* clock advances in one behaviour
MaxLen == 3          \* records in one upstream response
TickMs == 100000     \* ms by which one clock advance moves Date.now()
StartTime == 300000  \* Date.now() at process start, relative to the time origin

----------------------------------------------------------------------------
(* String literals of the source *)

s_gpt_5 == <<"g","p","t","-","5">>
s_gpt_5_mini == <<"g","p","t","-","5","-","m","i","n","i">>
s_gpt_4_5_preview == <<"g","p","t","-","4",".","5","-","p","r","e","v","i","e","w">>
s_gpt_4o == <<"g","p","t","-","4","o">>
s_gpt_4o_mini == <<"g","p","t","-","4","o","-","m","i","n","i">>
s_gpt_4_turbo == <<"g","p","t","-","4","-","t","u","r","b","o">>
s_gpt_4_turbo_preview == <<"g","p","t","-","4","-","t","u","r","b","o","-","p","r","e","v","i","e","w">>
s_gpt_4 == <<"g","p","t","-","4">>
s_gpt_3_5_turbo == <<"g","p","t","-","3",".","5","-","t","u","r","b","o">>
s_o1 == <<"o","1">>
s_o1_mini == <<"o","1","-","m","i","n","i">>
s_o1_preview == <<"o","1","-","p","r","e","v","i","e","w">>
s_gpt_4_vision_preview == <<"g","p","t","-","4","-","v","i","s","i","o","n","-","p","r","e","v","i","e","w">>
s_chatgpt_4o_latest == <<"c","h","a","t","g","p","t","-","4","o","-","l","a","t","e","s","t">>
s_gpt_ == <<"g","p","t","-">>
s_o3 == <<"o","3">>
s_instruct == <<"i","n","s","t","r","u","c","t">>
s_base == <<"b","a","s","e">>

(* Identifiers an upstream response may carry besides the literals above *)
s_o3_mini == <<"o","3","-","m","i","n","i">>
s_gpt_3_5_turbo_instruct == <<"g","p","t","-","3",".","5","-","t","u","r","b","o","-","i","n","s","t","r","u","c","t">>
s_gpt_4_base == <<"g","p","t","-","4","-","b","a","s","e">>
s_whisper_1 == <<"w","h","i","s","p","e","r","-","1">>

----------------------------------------------------------------------------
(* String.prototype methods used by the source *)

startsWith(s, p) == Len(s) >= Len(p) /\ SubSeq(s, 1, Len(p)) = p

includes(s, p) ==
    \E i \in 1..(Len(s) - Len(p) + 1) : SubSeq(s, i, i + Len(p) - 1) = p

lowerChars == <<"a","b","c","d","e","f","g","h","i","j","k","l","m",
                "n","o","p","q","r","s","t","u","v","w","x","y","z">>
upperChars == <<"A","B","C","D","E","F","G","H","I","J","K","L","M",
                "N","O","P","Q","R","S","T","U","V","W","X","Y","Z">>

toUpperCaseChar(c) ==
    IF \E i \in 1..Len(lowerChars) : lowerChars[i] = c
    THEN upperChars[CHOOSE i \in 1..Len(lowerChars) : lowerChars[i] = c]
    ELSE c

toUpperCase(s) == [i \in 1..Len(s) |-> toUpperCaseChar(s[i])]

\* s.replace(/-/g, ' ')
replaceHyphens(s) == [i \in 1..Len(s) |-> IF s[i] = "-" THEN " " ELSE s[i]]

----------------------------------------------------------------------------
(* formatModelName, isMultiModalModel, isBetaModel, getModelPriority *)

nameMap == <<
    <<s_gpt_5, <<"G","P","T","-","5">>>>,
    <<s_gpt_5_mini, <<"G","P","T","-","5"," ","M","i","n","i">>>>,
    <<s_gpt_4_5_preview, <<"G","P","T","-","4",".","5"," ","P","r","e","v","i","e","w">>>>,
    <<s_gpt_4o, <<"G","P","T","-","4","o">>>>,
    <<s_gpt_4o_mini, <<"G","P","T","-","4","o"," ","M","i","n","i">>>>,
    <<s_gpt_4_turbo, <<"G","P","T","-","4"," ","T","u","r","b","o">>>>,
    <<s_gpt_4_turbo_preview, <<"G","P","T","-","4"," ","T","u","r","b","o"," ","P","r","e","v","i","e","w">>>>,
    <<s_gpt_4, <<"G","P","T","-","4">>>>,
    <<s_gpt_3_5_turbo, <<"G","P","T","-","3",".","5"," ","T","u","r","b","o">>>>,
    <<s_o1, <<"o","1">>>>,
    <<s_o1_mini, <<"o","1","-","m","i","n","i">>>>,
    <<s_o1_preview, <<"o","1"," ","P","r","e","v","i","e","w">>>> >>

formatModelName(modelId) ==
    IF \E i \in 1..Len(nameMap) : nameMap[i][1] = modelId
    THEN nameMap[CHOOSE i \in 1..Len(nameMap) : nameMap[i][1] = modelId][2]
    ELSE replaceHyphens(toUpperCase(modelId))

multiModalModels ==
    <<s_gpt_5, s_gpt_5_mini, s_gpt_4_5_preview, s_gpt_4o, s_gpt_4o_mini,
      s_gpt_4_turbo, s_gpt_4_vision_preview, s_o1>>

isMultiModalModel(modelId) ==
    \E i \in 1..Len(multiModalModels) : includes(modelId, multiModalModels[i])

betaModels == <<s_gpt_5, s_gpt_5_mini, s_gpt_4_5_preview, s_o1_preview>>

isBetaModel(modelId) ==
    \E i \in 1..Len(betaModels) : includes(modelId, betaModels[i])

\* Object.entries(priorities): the keys in insertion order
priorities == <<
    <<s_gpt_5, 1>>,
    <<s_gpt_5_mini, 2>>,
    <<s_gpt_4_5_preview, 3>>,
    <<s_o1, 4>>,
    <<s_gpt_4o, 5>>,
    <<s_o1_mini, 6>>,
    <<s_gpt_4o_mini, 7>>,
    <<s_gpt_4_turbo, 8>>,
    <<s_gpt_4, 9>>,
    <<s_gpt_3_5_turbo, 10>> >>

UnknownPriority == 999

\* A lookup that takes the entry equal to the identifier and no other
getModelPriorityExact(modelId) ==
    IF \E i \in 1..Len(priorities) : priorities[i][1] = modelId
    THEN priorities[CHOOSE i \in 1..Len(priorities) : priorities[i][1] = modelId][2]
    ELSE UnknownPriority

\* The loop returns at the first entry, in insertion order, that modelId includes
getModelPriority(modelId) ==
    LET hits == {i \in 1..Len(priorities) : includes(modelId, priorities[i][1])}
    IN  IF hits = {}
        THEN UnknownPriority
        ELSE priorities[CHOOSE i \in hits : \A j \in hits : i <= j][2]

----------------------------------------------------------------------------
(* fetchOpenAIModels *)

NoKey == ""
UserKey == "sk-user"
EnvKey == "sk-env"

\* apiKey || process.env.NEXT_PUBLIC_OPENAI_API_KEY || process.env.OPENAI_API_KEY
resolveKey(apiKey, e) ==
    IF apiKey # NoKey THEN apiKey
    ELSE IF e.NEXT_PUBLIC_OPENAI_API_KEY # NoKey THEN e.NEXT_PUBLIC_OPENAI_API_KEY
    ELSE e.OPENAI_API_KEY

\* One record of OpenAIModelsResponse.data
OpenAIModel(id) == [id |-> id, object |-> "model", created |-> 0, owned_by |-> "openai"]

\* The filter that drops the .includes('base') test
isValidModelNoBase(id) ==
    /\ \/ startsWith(id, s_gpt_)
       \/ startsWith(id, s_o1)
       \/ startsWith(id, s_o3)
       \/ id = s_gpt_4o
       \/ id = s_gpt_4o_mini
       \/ id = s_chatgpt_4o_latest
    /\ ~includes(id, s_instruct)

isValidModel(id) ==
    /\ \/ startsWith(id, s_gpt_)
       \/ startsWith(id, s_o1)
       \/ startsWith(id, s_o3)
       \/ id = s_gpt_4o
       \/ id = s_gpt_4o_mini
       \/ id = s_chatgpt_4o_latest
    /\ ~includes(id, s_instruct)
    /\ ~includes(id, s_base)

filterModels(data) == SelectSeq(data, LAMBDA model : isValidModel(model.id))

LLMModel(model) ==
    [id |-> model.id,
     name |-> formatModelName(model.id),
     provider |-> "OpenAI",
     providerId |-> "openai",
     multiModal |-> isMultiModalModel(model.id),
     isBeta |-> isBetaModel(model.id)]

mapModels(data) == [i \in 1..Len(data) |-> LLMModel(data[i])]

\* The comparator of the sort: negative, zero or positive
compareModels(a, b) == getModelPriority(a.id) - getModelPriority(b.id)

\* An insertion that puts x in front of the entries it compares equal to
insertSortedUnstable(sorted, x) ==
    LET before == {i \in 1..Len(sorted) : compareModels(sorted[i], x) < 0}
        k == Cardinality(before)
    IN  SubSeq(sorted, 1, k) \o <<x>> \o SubSeq(sorted, k + 1, Len(sorted))

\* x goes behind every entry that does not compare greater than it
insertSorted(sorted, x) ==
    LET before == {i \in 1..Len(sorted) : compareModels(sorted[i], x) <= 0}
        k == Cardinality(before)
    IN  SubSeq(sorted, 1, k) \o <<x>> \o SubSeq(sorted, k + 1, Len(sorted))

RECURSIVE sortModels(_)
\* Array.prototype.sort with compareModels: a stable sort
sortModels(models) ==
    IF models = <<>>
    THEN <<>>
    ELSE insertSorted(sortModels(SubSeq(models, 1, Len(models) - 1)),
                      models[Len(models)])

FailKinds == {"non2xx", "transport", "malformed"}

\* The body of the try block: thrown tells whether it ended in an exception
tryFetch(key, resp) ==
    IF key = NoKey
    THEN [thrown |-> FALSE, value |-> <<>>]
    ELSE IF resp.kind \in FailKinds
    THEN [thrown |-> TRUE, value |-> <<>>]
    ELSE [thrown |-> FALSE, value |-> sortModels(mapModels(filterModels(resp.data)))]

\* A function whose catch block lets the exception go on to the caller
fetchOpenAIModelsRethrow(apiKey, e, resp) == tryFetch(resolveKey(apiKey, e), resp)

fetchOpenAIModels(apiKey, e, resp) ==
    LET r == tryFetch(resolveKey(apiKey, e), resp)
    IN  IF r.thrown THEN [thrown |-> FALSE, value |-> <<>>] ELSE r

\* Whether fetchOpenAIModels sends the request to api.openai.com
sendsRequest(apiKey, e) == resolveKey(apiKey, e) # NoKey

----------------------------------------------------------------------------
(* The models route: GET and POST call fetchOpenAIModels directly *)

IdUniverse ==
    {s_gpt_5, s_gpt_4o_mini, s_chatgpt_4o_latest, s_o1_preview,
     s_o3, s_o3_mini, s_gpt_3_5_turbo_instruct, s_gpt_4_base, s_whisper_1}

DataLists == UNION {[1..n -> {OpenAIModel(id) : id \in IdUniverse}] : n \in 0..MaxLen}

Response(kind, data) == [kind |-> kind, data |-> data]

UpstreamResponses ==
    {Response("ok", d) : d \in DataLists} \cup {Response(k, <<>>) : k \in FailKinds}

Environments ==
    [NEXT_PUBLIC_OPENAI_API_KEY : {NoKey, EnvKey}, OPENAI_API_KEY : {NoKey, EnvKey}]

\* NextResponse.json(body, {status}) together with the request it answers
\* The environments with no key at all or with the key in the variable looked up last;
\* those that set NEXT_PUBLIC_OPENAI_API_KEY are run under SpecErrors
ServerEnvironments == {e \in Environments : e.NEXT_PUBLIC_OPENAI_API_KEY = NoKey}

\* body: "none" for a GET, "json" for a POST body that parses, "unparsable" otherwise
Reply(handler, body, apiKey, status, success, models) ==
    <<[handler |-> handler, body |-> body, apiKey |-> apiKey, status |-> status,
       success |-> success, models |-> models, count |-> Len(models)]>>

\* GET /?apiKey=...: searchParams.get('apiKey') || undefined
GET(apiKey) ==
    /\ routeResp = <<>>
    /\ LET r == fetchOpenAIModels(apiKey, env, upstream)
       IN  routeResp' = IF r.thrown
                        THEN Reply("GET", "none", apiKey, 500, FALSE, <<>>)
                        ELSE Reply("GET", "none", apiKey, 200, TRUE, r.value)
    /\ UNCHANGED <<env, upstream, cacheVars>>

\* POST with a body that request.json() cannot parse
POSTUnparsable ==
    /\ routeResp' = Reply("POST", "unparsable", NoKey, 500, FALSE, <<>>)
    /\ UNCHANGED <<env, upstream, cacheVars>>

\* POST {apiKey}
POST(apiKey) ==
    /\ routeResp = <<>>
    /\ LET r == fetchOpenAIModels(apiKey, env, upstream)
       IN  routeResp' = IF apiKey = NoKey
                        THEN Reply("POST", "json", apiKey, 400, FALSE, <<>>)
                        ELSE IF r.thrown
                        THEN Reply("POST", "json", apiKey, 500, FALSE, <<>>)
                        ELSE Reply("POST", "json", apiKey, 200, TRUE, r.value)
    /\ UNCHANGED <<env, upstream, cacheVars>>

InitCache ==
    /\ now = StartTime
    /\ cachedModels = <<>>
    /\ cacheTimestamp = 0
    /\ inflight = <<>>
    /\ ret = <<>>
    /\ writer = <<>>
    /\ afterClear = FALSE

InitRoute ==
    /\ InitCache
    /\ env \in ServerEnvironments
    /\ upstream \in UpstreamResponses
    /\ routeResp = <<>>

NextRoute ==
    \/ \E apiKey \in {NoKey, UserKey} : GET(apiKey)
    \/ \E apiKey \in {NoKey, UserKey} : POST(apiKey)
    \/ POSTUnparsable

SpecRoute == InitRoute /\ [][NextRoute]_vars

----------------------------------------------------------------------------
(* The cache: getCachedOpenAIModels and clearOpenAIModelsCache *)

CACHE_DURATION == 5 * 60 * 1000

\* What api.openai.com may answer to a request of getCachedOpenAIModels: a catalog,
\* a list the filter empties, a non-2xx status, no answer at all
CacheResponses ==
    {Response("ok", <<OpenAIModel(s_gpt_4o_mini)>>),
     Response("ok", <<OpenAIModel(s_whisper_1)>>),
     Response("non2xx", <<>>),
     Response("transport", <<>>)}

\* The same, and a 2xx answer whose body is not the JSON the code expects
ErrorResponses == CacheResponses \cup {Response("malformed", <<>>)}

\* cachedModels && (now - cacheTimestamp) < CACHE_DURATION
cacheValid == cachedModels # <<>> /\ (now - cacheTimestamp) < CACHE_DURATION

\* The locals of a suspended invocation: its now and apiKey; sent tells whether its
\* fetchOpenAIModels sent a request, raced whether another invocation stored a
\* snapshot while this one was suspended
Suspended(t, apiKey, sent, raced) ==
    [now |-> t, apiKey |-> apiKey, sent |-> sent, raced |-> raced]

\* The end of an invocation: thrown tells whether it ended in an exception
Returned(kind, thrown, value) == <<[kind |-> kind, thrown |-> thrown, value |-> value]>>

\* A getCachedOpenAIModels that starts no fetch of its own while another is suspended
getCachedOpenAIModelsSingleFlight(apiKey) ==
    /\ IF cacheValid
       THEN /\ ret' = Returned("cached", FALSE, cachedModels[1])
            /\ UNCHANGED inflight
       ELSE IF inflight # <<>>
       THEN /\ ret' = Returned("shared", FALSE, <<>>)
            /\ UNCHANGED inflight
       ELSE /\ inflight' = Append(inflight,
                                  Suspended(now, apiKey, sendsRequest(apiKey, env), FALSE))
            /\ UNCHANGED ret
    /\ afterClear' = FALSE
    /\ UNCHANGED <<now, env, cachedModels, cacheTimestamp, writer, upstream, routeResp>>

\* getCachedOpenAIModels up to its return or to "await fetchOpenAIModels(apiKey)"
getCachedOpenAIModels(apiKey) ==
    /\ IF cacheValid
       THEN /\ ret' = Returned("cached", FALSE, cachedModels[1])
            /\ UNCHANGED inflight
       ELSE /\ Len(inflight) < MaxInFlight
            /\ inflight' = Append(inflight,
                                  Suspended(now, apiKey, sendsRequest(apiKey, env), FALSE))
            /\ UNCHANGED ret
    /\ afterClear' = FALSE
    /\ UNCHANGED <<now, env, cachedModels, cacheTimestamp, writer, upstream, routeResp>>

\* How a fetchOpenAIModels run ended
outcomeKind(apiKey, e, resp) ==
    IF resolveKey(apiKey, e) = NoKey THEN "nokey" ELSE resp.kind

\* inflight without its c-th invocation, the others marked as raced
others(c) ==
    [i \in 1..(Len(inflight) - 1) |->
        LET o == IF i < c THEN inflight[i] ELSE inflight[i + 1]
        IN  Suspended(o.now, o.apiKey, o.sent, TRUE)]

\* getCachedOpenAIModels from the point where the awaited fetchOpenAIModels settles
resumeGetCachedOpenAIModels(c, resp) ==
    \E r \in {fetchOpenAIModels(inflight[c].apiKey, env, resp)} :
    \E k \in {outcomeKind(inflight[c].apiKey, env, resp)} :
        /\ ret' = Returned(k, r.thrown, r.value)
        /\ IF r.thrown
           THEN /\ inflight' = [i \in 1..(Len(inflight) - 1) |->
                                   IF i < c THEN inflight[i] ELSE inflight[i + 1]]
                /\ UNCHANGED <<cachedModels, cacheTimestamp, writer>>
           ELSE /\ inflight' = others(c)
                /\ cachedModels' = <<r.value>>
                /\ cacheTimestamp' = inflight[c].now
                /\ writer' = <<[done |-> now,
                                 kind |-> IF k \in FailKinds THEN "failed" ELSE k,
                                 raced |-> inflight[c].raced]>>
        /\ UNCHANGED <<now, env, afterClear, upstream, routeResp>>

clearOpenAIModelsCache ==
    /\ cachedModels' = <<>>
    /\ cacheTimestamp' = 0
    /\ writer' = <<>>
    /\ afterClear' = TRUE
    /\ UNCHANGED <<now, env, inflight, ret, upstream, routeResp>>

\* Time passes: Date.now() moves on
Tick ==
    /\ now < StartTime + MaxTicks * TickMs
    /\ now' = now + TickMs
    /\ UNCHANGED <<env, cachedModels, cacheTimestamp, inflight, ret, writer,
                   afterClear, upstream, routeResp>>

\* The route is not run here: each resumption draws its own upstream answer
Init ==
    /\ InitCache
    /\ env \in ServerEnvironments
    /\ upstream = Response("ok", <<>>)
    /\ routeResp = <<>>

Next ==
    \/ \E apiKey \in {NoKey, UserKey} : getCachedOpenAIModels(apiKey)
    \/ \E c \in 1..Len(inflight) : \E resp \in CacheResponses : resumeGetCachedOpenAIModels(c, resp)
    \/ clearOpenAIModelsCache
    \/ Tick

Spec == Init /\ [][Next]_vars

----------------------------------------------------------------------------
(* The route and the cache against one upstream answer, failures included *)

InitErrors ==
    /\ InitCache
    /\ env \in Environments
    /\ upstream \in ErrorResponses
    /\ routeResp = <<>>

NextErrors ==
    \/ \E apiKey \in {NoKey, UserKey} : GET(apiKey)
    \/ \E apiKey \in {NoKey, UserKey} : POST(apiKey)
    \/ POSTUnparsable
    \/ \E apiKey \in {NoKey, UserKey} : getCachedOpenAIModels(apiKey)
    \/ \E c \in 1..Len(inflight) : resumeGetCachedOpenAIModels(c, upstream)

SpecErrors == InitErrors /\ [][NextErrors]_vars

----------------------------------------------------------------------------
(* Vocabulary of the properties *)

Keys == {NoKey, UserKey}

\* Some getCachedOpenAIModels call starts in this step
CallStep == \E apiKey \in Keys : getCachedOpenAIModels(apiKey)

\* The call of this step returns the stored snapshot and starts no fetch
AnswersFromSnapshot ==
    /\ inflight' = inflight
    /\ cachedModels # <<>>
    /\ ret' = Returned("cached", FALSE, cachedModels[1])

\* The call of this step starts a fetch of its own
StartsOwnFetch ==
    /\ Len(inflight') = Len(inflight) + 1
    /\ inflight'[Len(inflight')].now = now

\* The c-th suspended invocation resumes and ends in this step
Settles(c) ==
    /\ Len(inflight') = Len(inflight) - 1
    /\ \A i \in 1..Len(inflight') :
          LET o == IF i < c THEN inflight[i] ELSE inflight[i + 1]
          IN  inflight'[i].now = o.now /\ inflight'[i].apiKey = o.apiKey

\* The route ran fetchOpenAIModels with a credential and upstream answered 2xx with a list
RouteFetched ==
    /\ routeResp # <<>>
    /\ routeResp[1].status = 200
    /\ upstream.kind = "ok"
    /\ \/ routeResp[1].apiKey # NoKey
       \/ env.NEXT_PUBLIC_OPENAI_API_KEY # NoKey
       \/ env.OPENAI_API_KEY # NoKey

Occurrences(seq, id) == Cardinality({i \in 1..Len(seq) : seq[i].id = id})

Ranked(id) == \E i \in 1..Len(priorities) : includes(id, priorities[i][1])

----------------------------------------------------------------------------
(* C1: once a getCachedOpenAIModels call has fetched successfully, a call made
   less than 300000 ms after that fetch, with no clearOpenAIModelsCache in
   between, returns the stored snapshot and sends no upstream request. *)
C1_SecondCallWithinTTLAnswersFromCache ==
    [][(/\ CallStep
        /\ writer # <<>>
        /\ writer[1].kind = "ok"
        /\ now - writer[1].done < CACHE_DURATION)
       => AnswersFromSnapshot]_vars

(* C2: the getCachedOpenAIModels call that follows a clearOpenAIModelsCache
   never answers from a stored snapshot but starts a fresh fetch, whatever
   other calls are in flight. *)
C2_CallAfterClearFetches ==
    [][(CallStep /\ afterClear) => StartsOwnFetch]_vars

(* C3: a refresh that fails leaves an existing valid snapshot as it is:
   neither cachedModels nor cacheTimestamp changes. *)
C3_FailedRefreshKeepsValidSnapshot ==
    [][(/\ \E c \in 1..Len(inflight) : Settles(c)
        /\ ret'[1].kind \in FailKinds
        /\ cacheValid)
       => UNCHANGED <<cachedModels, cacheTimestamp>>]_vars

(* C4: no failure kind (missing credential, non-2xx answer, transport
   failure, malformed body) surfaces as an error: the invocation ends
   normally with the empty sequence, and the route answers 500 only to a
   request body it cannot parse, never because of the upstream. *)
C4_NoErrorSurfaces ==
    /\ ret # <<>> =>
          /\ ~ret[1].thrown
          /\ (ret[1].kind \in FailKinds \cup {"nokey"} => ret[1].value = <<>>)
    /\ routeResp # <<>> =>
          /\ (routeResp[1].status = 500 => routeResp[1].body = "unparsable")
          /\ (routeResp[1].body = "none" =>
                 routeResp[1].status = 200 /\ routeResp[1].success)
          /\ (routeResp[1].status = 200 /\ ~RouteFetched =>
                 routeResp[1].models = <<>> /\ routeResp[1].count = 0)

C4_Witness ==
    /\ ret # <<>> /\ ret[1].kind = "transport" /\ ret[1].value = <<>>
    /\ routeResp # <<>> /\ routeResp[1].handler = "GET" /\ routeResp[1].apiKey = UserKey
    /\ routeResp[1].status = 200
    /\ upstream.kind = "transport"

(* C5: a record is retained iff its identifier starts with gpt-, o1 or o3 or
   is one of gpt-4o, gpt-4o-mini, chatgpt-4o-latest, and contains neither
   instruct nor base; every retained record appears with its identifier
   unchanged, every other record does not appear. *)
C5_Retainable(id) ==
    /\ \/ Len(id) >= 4 /\ SubSeq(id, 1, 4) = s_gpt_
       \/ Len(id) >= 2 /\ SubSeq(id, 1, 2) = s_o1
       \/ Len(id) >= 2 /\ SubSeq(id, 1, 2) = s_o3
       \/ id \in {s_gpt_4o, s_gpt_4o_mini, s_chatgpt_4o_latest}
    /\ \A i \in 1..Len(id) : \A w \in {s_instruct, s_base} :
          i + Len(w) - 1 <= Len(id) => SubSeq(id, i, i + Len(w) - 1) # w

C5_FilterRule ==
    RouteFetched =>
        \A id \in IdUniverse :
            Occurrences(routeResp[1].models, id) =
                IF C5_Retainable(id) THEN Occurrences(upstream.data, id) ELSE 0

C5_Witness ==
    /\ RouteFetched
    /\ Occurrences(upstream.data, s_gpt_4_base) = 1
    /\ Occurrences(upstream.data, s_chatgpt_4o_latest) = 1
    /\ Occurrences(upstream.data, s_whisper_1) = 1
    /\ Len(routeResp[1].models) = 1
    /\ routeResp[1].models[1].id = s_chatgpt_4o_latest

(* C6: the returned sequence is a permutation of the retained records in
   ascending order of priority rank, an identifier that matches no entry of
   the priority table has rank 999 and comes last, and entries of equal rank
   keep the order they had in the upstream response. *)
C6_Retained == SelectSeq(upstream.data, LAMBDA m : C5_Retainable(m.id))

C6_StableSortByPriority ==
    RouteFetched =>
        LET out == routeResp[1].models
            n == Len(out)
            rank(i) == getModelPriority(out[i].id)
        IN  /\ n = Len(C6_Retained)
            /\ \E p \in [1..n -> 1..n] :
                  /\ \A i, j \in 1..n : i # j => p[i] # p[j]
                  /\ \A i \in 1..n : out[i].id = C6_Retained[p[i]].id
                  /\ \A i, j \in 1..n :
                        i < j => \/ rank(i) < rank(j)
                                 \/ rank(i) = rank(j) /\ p[i] < p[j]
            /\ \A i \in 1..n :
                  ~Ranked(out[i].id) =>
                      /\ rank(i) = 999
                      /\ \A j \in i..n : ~Ranked(out[j].id)

C6_Witness ==
    /\ RouteFetched
    /\ [i \in 1..Len(upstream.data) |-> upstream.data[i].id] = <<s_o3_mini, s_o3, s_gpt_5>>
    /\ [i \in 1..Len(routeResp[1].models) |-> routeResp[1].models[i].id]
          = <<s_gpt_5, s_o3_mini, s_o3>>

(* C7: for gpt-4o-mini the entry has name "GPT-4o Mini", multiModal true,
   isBeta false, and getModelPriority gives it rank 7. *)
C7_Gpt4oMini ==
    RouteFetched =>
        \A i \in 1..Len(routeResp[1].models) :
            routeResp[1].models[i].id = s_gpt_4o_mini =>
                /\ routeResp[1].models[i].name
                      = <<"G","P","T","-","4","o"," ","M","i","n","i">>
                /\ routeResp[1].models[i].multiModal
                /\ ~routeResp[1].models[i].isBeta
                /\ getModelPriority(routeResp[1].models[i].id) = 7

(* C8, as stated: o1-preview is retained, has isBeta true, and its rank falls
   through to 999, so it comes after every entry ranked by the table. *)
C8_O1PreviewUnranked ==
    RouteFetched =>
        /\ Occurrences(routeResp[1].models, s_o1_preview)
              = Occurrences(upstream.data, s_o1_preview)
        /\ \A i \in 1..Len(routeResp[1].models) :
              routeResp[1].models[i].id = s_o1_preview =>
                  /\ routeResp[1].models[i].isBeta
                  /\ getModelPriority(s_o1_preview) = 999
                  /\ \A j \in 1..Len(routeResp[1].models) :
                        Ranked(routeResp[1].models[j].id)
                        /\ routeResp[1].models[j].id # s_o1_preview => j < i

(* C8, amended: o1-preview is retained, has isBeta true, and has rank 4, the
   rank of the table entry o1 that it contains; it comes after every entry of
   rank below 4 and before every entry of rank above 4, unranked ones
   included. *)
C8_O1PreviewRankedAsO1 ==
    RouteFetched =>
        /\ Occurrences(routeResp[1].models, s_o1_preview)
              = Occurrences(upstream.data, s_o1_preview)
        /\ \A i \in 1..Len(routeResp[1].models) :
              routeResp[1].models[i].id = s_o1_preview =>
                  /\ routeResp[1].models[i].isBeta
                  /\ getModelPriority(s_o1_preview) = 4
                  /\ \A j \in 1..Len(routeResp[1].models) :
                        /\ getModelPriority(routeResp[1].models[j].id) < 4 => j < i
                        /\ getModelPriority(routeResp[1].models[j].id) > 4 => j > i

C8_Witness ==
    /\ RouteFetched
    /\ [i \in 1..Len(upstream.data) |-> upstream.data[i].id]
          = <<s_gpt_4o_mini, s_o1_preview, s_gpt_5>>
    /\ [i \in 1..Len(routeResp[1].models) |-> routeResp[1].models[i].id]
          = <<s_gpt_5, s_o1_preview, s_gpt_4o_mini>>

(* C9: in-flight refreshes are not de-duplicated: a call that starts while
   the cache is missing or expired starts its own fetch even when another is
   in flight (sending its own request whenever a credential resolves), and
   every fetch that completes overwrites the snapshot with its own result and
   its own call's timestamp, so the last one to complete wins. *)
C9_NoDeduplicationLastWriteWins ==
    [][/\ \A apiKey \in Keys :
             getCachedOpenAIModels(apiKey) /\ ~cacheValid =>
                 /\ StartsOwnFetch
                 /\ inflight'[Len(inflight')].sent
                       = (\/ apiKey # NoKey
                          \/ env.NEXT_PUBLIC_OPENAI_API_KEY # NoKey
                          \/ env.OPENAI_API_KEY # NoKey)
                 /\ UNCHANGED <<cachedModels, cacheTimestamp>>
       /\ Len(inflight') < Len(inflight) =>
             /\ cachedModels' = <<ret'[1].value>>
             /\ \E c \in 1..Len(inflight) :
                   Settles(c) /\ cacheTimestamp' = inflight[c].now
      ]_vars

\* Both of two overlapping invocations have completed; the snapshot is the second one's
C9_Witness ==
    /\ inflight = <<>>
    /\ writer # <<>> /\ writer[1].raced /\ writer[1].kind = "ok"
    /\ ret # <<>> /\ cachedModels = <<ret[1].value>>

(* C10: a failed fetch stores the empty sequence as the snapshot, and every
   getCachedOpenAIModels call made within 300000 ms after the failure, with
   no clearOpenAIModelsCache, returns the empty catalog and sends no upstream
   request. *)
C10_FailureCachedForTTL ==
    [][/\ (\E c \in 1..Len(inflight) : Settles(c)) /\ ret'[1].kind \in FailKinds =>
             cachedModels' = <<<<>>>>
       /\ (/\ CallStep
           /\ writer # <<>>
           /\ writer[1].kind = "failed"
           /\ now - writer[1].done < CACHE_DURATION)
          => AnswersFromSnapshot /\ ret'[1].value = <<>>
      ]_vars

====
